---- MODULE Spec2Model ----
(***************************************************************************)
(* Model of app.py, the MLB model-success dashboard: a script that loads   *)
(* a table of settled games, filters it by the selected date and team,     *)
(* labels every game (spread coverage, over/under) and rolls the games up  *)
(* into weekly and overall summaries.                                      *)
(*                                                                         *)
(* Numbers.  OpeningPointSpread and OpeningOverUnder are betting lines in  *)
(* half points; the model keeps them doubled (OpeningPointSpread2 = 2 x    *)
(* the line) so that they are integers, and doubles the other side of      *)
(* every comparison with them.  Fractions (means, percentages) are exact   *)
(* rationals <<n, d>> in lowest terms, d > 0: the code's doubles are       *)
(* modelled by the values they approximate.                                *)
(*                                                                         *)
(* Dates are day numbers: day 0 is Monday 2024-12-23, so that the modelled *)
(* window crosses a month and a year boundary.                             *)
(***************************************************************************)
EXTENDS Integers, Sequences, FiniteSets, TLC

VARIABLES
    csv,            \* rows of comparison.csv, in file order
    df,             \* load_data(): the rows after drop_duplicates
    pc,             \* the section of the script about to run
    selected_date,  \* the date selectbox
    selected_team,  \* the team selectbox
    filtered,       \* the filtered, enriched rows
    all_df,         \* the enriched rows of the whole table
    weekly_raw,     \* the groupby("Week") aggregate
    totals,         \* the overall totals computed from weekly_raw
    out,            \* what has been rendered, in order
    err             \* the exception that ended the script run, "" if none

vars == <<csv, df, pc, selected_date, selected_team, filtered, all_df,
          weekly_raw, totals, out, err>>

----------------------------------------------------------------------------
(* Bounds of the model *)

MaxScore == 2

MaxGames == 3

----------------------------------------------------------------------------
(* Generic helpers *)

Range(s) == {s[i] : i \in DOMAIN s}

RECURSIVE SumSeq(_)
SumSeq(s) == IF s = <<>> THEN 0 ELSE Head(s) + SumSeq(Tail(s))

Abs(x) == IF x < 0 THEN -x ELSE x

RECURSIVE GCD(_, _)
GCD(a, b) == IF b = 0 THEN a ELSE GCD(b, a % b)

\* the rational n/d in lowest terms (d # 0)
Frac(n, d) ==
    LET g == GCD(Abs(n), Abs(d))
        s == IF d < 0 THEN -1 ELSE 1
    IN  <<(s * n) \div g, (s * d) \div g>>

FracMul(a, b) == Frac(a[1] * b[1], a[2] * b[2])

FracAdd(a, b) == Frac(a[1] * b[2] + b[1] * a[2], a[2] * b[2])

FracDiv(a, b) == Frac(a[1] * b[2], a[2] * b[1])

RECURSIVE FracSum(_)
FracSum(s) == IF s = <<>> THEN <<0, 1>> ELSE FracAdd(Head(s), FracSum(Tail(s)))

\* a fraction as a whole percentage, ties to even ("{:.0%}", round())
Percent(x) ==
    LET n == 100 * x[1]
        q == n \div x[2]
        r == n % x[2]
    IN  IF 2 * r < x[2] THEN q
        ELSE IF 2 * r > x[2] THEN q + 1
        ELSE IF q % 2 = 0 THEN q ELSE q + 1

----------------------------------------------------------------------------
(* Calendar: GameDate.dt.date and GameDate.dt.to_period("W").astype(str) *)

\* the calendar date <<year, month, day>> of day number d
DateOf(d) == IF d <= 8 THEN <<2024, 12, 23 + d>> ELSE <<2025, 1, d - 8>>

\* The weekly period of a date runs Monday to Sunday; its string is
\* "YYYY-MM-DD/YYYY-MM-DD" (first day/last day), here the six numbers.
Week(d) ==
    LET start == d - (d % 7)
    IN  DateOf(start) \o DateOf(start + 6)

\* Order of two week strings: strings compare character by character, and
\* with zero-padded fields of fixed width that is the lexicographic order of
\* the numbers.
RECURSIVE KeyLess(_, _)
KeyLess(a, b) ==
    IF a = <<>> \/ b = <<>> THEN a = <<>> /\ b # <<>>
    ELSE IF Head(a) # Head(b) THEN Head(a) < Head(b)
    ELSE KeyLess(Tail(a), Tail(b))

----------------------------------------------------------------------------
(* Row-wise labels *)

ActualSpread(row) == row.HomeScore - row.AwayScore

\* mutant: a tie against the line counts as covered
SpreadCoveredTieCovers(row) ==
    IF row.Favorite = "Home" /\ 2 * ActualSpread(row) >= row.OpeningPointSpread2
        THEN "Home Covered"
    ELSE IF row.Favorite = "Away" /\ 2 * (-ActualSpread(row)) > row.OpeningPointSpread2
        THEN "Away Covered"
    ELSE IF row.Favorite = "Home" THEN "Home Missed"
    ELSE "Away Missed"

\* mutant: the away side graded on the home margin
SpreadCoveredAwayUnnegated(row) ==
    IF row.Favorite = "Home" /\ 2 * ActualSpread(row) > row.OpeningPointSpread2
        THEN "Home Covered"
    ELSE IF row.Favorite = "Away" /\ 2 * ActualSpread(row) > row.OpeningPointSpread2
        THEN "Away Covered"
    ELSE IF row.Favorite = "Home" THEN "Home Missed"
    ELSE "Away Missed"

SpreadCovered(row) ==
    IF row.Favorite = "Home" /\ 2 * ActualSpread(row) > row.OpeningPointSpread2
        THEN "Home Covered"
    ELSE IF row.Favorite = "Away" /\ 2 * (-ActualSpread(row)) > row.OpeningPointSpread2
        THEN "Away Covered"
    ELSE IF row.Favorite = "Home" THEN "Home Missed"
    ELSE "Away Missed"

\* mutant: the result recomputed from the final total against the line
OU_ResultRecomputed(row) ==
    IF 2 * row.TotalRuns > row.OpeningOverUnder2 THEN "Over"
    ELSE IF 2 * row.TotalRuns < row.OpeningOverUnder2 THEN "Under"
    ELSE "Push"

OU_Result(row) ==
    IF row.OverHit THEN "Over" ELSE IF row.UnderHit THEN "Under" ELSE "Push"

TotalResult(row) ==
    IF row.OverHit /\ row.Favorite = "Home" THEN "Over Home"
    ELSE IF row.OverHit /\ row.Favorite = "Away" THEN "Over Away"
    ELSE IF row.UnderHit /\ row.Favorite = "Home" THEN "Under Home"
    ELSE "Under Away"

\* CorrectSide.astype(int)
AsInt(b) == IF b THEN 1 ELSE 0

----------------------------------------------------------------------------
(* Table operations *)

\* drop_duplicates(subset=["GameId"]): the first row of each GameId is kept
RECURSIVE DropDuplicates(_, _)
DropDuplicates(rows, seen) ==
    IF rows = <<>> THEN <<>>
    ELSE IF Head(rows).GameId \in seen THEN DropDuplicates(Tail(rows), seen)
    ELSE <<Head(rows)>> \o DropDuplicates(Tail(rows), seen \cup {Head(rows).GameId})

DateOptions(table) == {r.GameDate : r \in Range(table)}

TeamOptions(table) ==
    {"All"} \cup {r.HomeTeam : r \in Range(table)} \cup {r.AwayTeam : r \in Range(table)}

Filtered(table, date, team) ==
    LET onDate(r) == r.GameDate = date
        plays(r)  == r.HomeTeam = team \/ r.AwayTeam = team
        byDate    == SelectSeq(table, onDate)
    IN  IF team # "All" THEN SelectSeq(byDate, plays) ELSE byDate

EnrichFiltered(row) ==
    [GameId |-> row.GameId, GameDate |-> row.GameDate,
     HomeTeam |-> row.HomeTeam, AwayTeam |-> row.AwayTeam,
     HomeScore |-> row.HomeScore, AwayScore |-> row.AwayScore,
     Favorite |-> row.Favorite, CorrectSide |-> row.CorrectSide,
     OpeningPointSpread2 |-> row.OpeningPointSpread2,
     OpeningOverUnder2 |-> row.OpeningOverUnder2,
     TotalRuns |-> row.TotalRuns,
     OverHit |-> row.OverHit, UnderHit |-> row.UnderHit,
     PushTotal |-> row.PushTotal,
     ActualSpread |-> ActualSpread(row),
     SpreadCovered |-> SpreadCovered(row),
     OU_Result |-> OU_Result(row)]

EnrichAll(row) ==
    [GameId |-> row.GameId, GameDate |-> row.GameDate,
     HomeTeam |-> row.HomeTeam, AwayTeam |-> row.AwayTeam,
     HomeScore |-> row.HomeScore, AwayScore |-> row.AwayScore,
     Favorite |-> row.Favorite, CorrectSide |-> AsInt(row.CorrectSide),
     OpeningPointSpread2 |-> row.OpeningPointSpread2,
     OpeningOverUnder2 |-> row.OpeningOverUnder2,
     TotalRuns |-> row.TotalRuns,
     OverHit |-> row.OverHit, UnderHit |-> row.UnderHit,
     PushTotal |-> row.PushTotal,
     Week |-> Week(row.GameDate),
     ActualSpread |-> ActualSpread(row),
     SpreadCovered |-> SpreadCovered(row),
     TotalResult |-> TotalResult(row)]

\* mutant: groupby(..., sort=False), the groups in order of first appearance
RECURSIVE GroupKeysUnsorted(_)
GroupKeysUnsorted(rows) ==
    IF rows = <<>> THEN <<>>
    ELSE LET rest == GroupKeysUnsorted(Tail(rows))
             notHead(k) == k # Head(rows).Week
         IN  <<Head(rows).Week>> \o SelectSeq(rest, notHead)

\* the distinct keys of a set, ascending
RECURSIVE SortKeys(_)
SortKeys(keys) ==
    IF keys = {} THEN <<>>
    ELSE LET least == CHOOSE k \in keys : \A j \in keys \ {k} : KeyLess(k, j)
         IN  <<least>> \o SortKeys(keys \ {least})

\* groupby("Week"): one group per distinct Week, sorted by key
GroupKeys(rows) == SortKeys({r.Week : r \in Range(rows)})

\* mutant: "Games" as the number of distinct game dates of the group
GroupGamesDistinctDates(members) ==
    Cardinality({r.GameDate : r \in Range(members)})

\* "GameDate": "count", the number of rows of the group with a date
GroupGames(members) == Len(members)

\* mutant: the mean kept as the whole percentage the weekly table displays
GroupMeanRounded(members) ==
    Frac(Percent(Frac(SumSeq([i \in DOMAIN members |-> members[i].CorrectSide]),
                      Len(members))), 100)

\* "CorrectSide": "mean" over the rows of the group
GroupMean(members) ==
    Frac(SumSeq([i \in DOMAIN members |-> members[i].CorrectSide]), Len(members))

WeeklyRaw(rows) ==
    LET keys == GroupKeys(rows)
        group(k) == LET inWeek(r) == r.Week = k IN SelectSeq(rows, inWeek)
        hitOver(r) == r.OverHit
        hitUnder(r) == r.UnderHit
    IN  [i \in DOMAIN keys |->
            [Week |-> keys[i],
             ML_Accuracy |-> GroupMean(group(keys[i])),
             Games |-> GroupGames(group(keys[i])),
             OverHit |-> Len(SelectSeq(group(keys[i]), hitOver)),
             UnderHit |-> Len(SelectSeq(group(keys[i]), hitUnder))]]

WeeklyDisplay(raw) ==
    [i \in DOMAIN raw |->
        [index |-> raw[i].Week,
         MoneylineAccuracy |-> Percent(raw[i].ML_Accuracy),
         Games |-> raw[i].Games,
         OverHit |-> raw[i].OverHit,
         UnderHit |-> raw[i].UnderHit]]

\* (weekly_raw["ML_Accuracy"] * weekly_raw["Games"]).sum()
WeightedSum(raw) ==
    FracSum([i \in DOMAIN raw |-> FracMul(raw[i].ML_Accuracy, <<raw[i].Games, 1>>)])

OverallTotals(raw) ==
    LET total_games_all == SumSeq([i \in DOMAIN raw |-> raw[i].Games])
        total_overs == SumSeq([i \in DOMAIN raw |-> raw[i].OverHit])
        total_unders == SumSeq([i \in DOMAIN raw |-> raw[i].UnderHit])
    IN  [total_games_all |-> total_games_all,
         correct_pct_all |-> FracDiv(WeightedSum(raw), <<total_games_all, 1>>),
         total_overs |-> total_overs,
         total_unders |-> total_unders,
         over_pct |-> Frac(total_overs, total_games_all),
         under_pct |-> Frac(total_unders, total_games_all)]

\* value_counts() with its percentage column; the order of the rows of
\* equal count is not modelled, the table is the set of its rows
ValueCounts(labels) ==
    LET n == Len(labels)
        times(v) == LET is(x) == x = v IN Len(SelectSeq(labels, is))
    IN  {[Outcome |-> v, Games |-> times(v), Pct |-> Percent(Frac(times(v), n))] :
            v \in Range(labels)}

----------------------------------------------------------------------------
(* Input tables *)

Flags == [OverHit : BOOLEAN, UnderHit : BOOLEAN, PushTotal : BOOLEAN]

BaseRow ==
    [GameId |-> 1, GameDate |-> 7, HomeTeam |-> "BOS", AwayTeam |-> "NYY",
     HomeScore |-> 1, AwayScore |-> 0, Favorite |-> "Home", CorrectSide |-> TRUE,
     OpeningPointSpread2 |-> -3, OpeningOverUnder2 |-> 3, TotalRuns |-> 1,
     OverHit |-> FALSE, UnderHit |-> TRUE, PushTotal |-> FALSE]

\* one game, every combination of the fields the labels read
LabelRows ==
    {[BaseRow EXCEPT !.HomeScore = h, !.AwayScore = a, !.TotalRuns = h + a,
                     !.Favorite = fav, !.CorrectSide = c,
                     !.OpeningPointSpread2 = s, !.OpeningOverUnder2 = ou,
                     !.OverHit = f.OverHit, !.UnderHit = f.UnderHit,
                     !.PushTotal = f.PushTotal] :
        h \in 0..MaxScore, a \in 0..MaxScore,
        fav \in {"Home", "Away", "None", "Pick"}, c \in BOOLEAN,
        s \in {-3, -2, 0, 3}, ou \in {3, 5}, f \in Flags}

\* games of three weeks, two of them in the same week
AggDates == {6, 7, 10, 14}

AggTables ==
    UNION {
        {[i \in 1..n |-> [BaseRow EXCEPT !.GameId = i, !.GameDate = t[i][1],
                                         !.CorrectSide = t[i][2]]] :
            t \in [1..n -> AggDates \X BOOLEAN]} :
        n \in 1..MaxGames}

Matchups == {<<"BOS", "NYY">>, <<"BOS", "LAD">>}

\* games of two dates and two matchups; a row may repeat the first GameId
FilterTables ==
    UNION {
        {[i \in 1..n |-> [BaseRow EXCEPT !.GameId = IF t[i][3] THEN 1 ELSE i,
                                         !.GameDate = t[i][1],
                                         !.HomeTeam = t[i][2][1],
                                         !.AwayTeam = t[i][2][2]]] :
            t \in [1..n -> {6, 7} \X Matchups \X BOOLEAN]} :
        n \in 1..MaxGames}

----------------------------------------------------------------------------
(* The script *)

Start(tables) ==
    /\ csv \in tables
    /\ df = <<>>
    /\ pc = "load"
    /\ selected_date = -1
    /\ selected_team = "All"
    /\ filtered = <<>>
    /\ all_df = <<>>
    /\ weekly_raw = <<>>
    /\ totals = [total_games_all |-> 0]
    /\ out = <<>>
    /\ err = ""

Init == Start({<<r>> : r \in LabelRows})

InitAgg == Start(AggTables)

InitFilter == Start(FilterTables)

LoadData ==
    /\ pc = "load"
    /\ df' = DropDuplicates(csv, {})
    /\ pc' = "filters"
    /\ UNCHANGED <<csv, selected_date, selected_team, filtered, all_df,
                   weekly_raw, totals, out, err>>

\* The widgets: each choice (re)runs the script from the top with the cached
\* table, everything the last run computed and rendered is gone.
SelectFilters ==
    /\ pc \in {"filters", "done"}
    /\ \E d \in DateOptions(df), t \in TeamOptions(df) :
        /\ selected_date' = d
        /\ selected_team' = t
    /\ filtered' = <<>>
    /\ all_df' = <<>>
    /\ weekly_raw' = <<>>
    /\ totals' = [total_games_all |-> 0]
    /\ out' = <<>>
    /\ err' = ""
    /\ pc' = "filtered"
    /\ UNCHANGED <<csv, df>>

\* Filter, enrich and show the game details.  With no row left, what
\* apply(axis=1) returns depends on the dataframe library's version: an empty
\* frame of all the columns, whose assignment to the single column
\* "SpreadCovered" raises ValueError and ends the run; or an empty numeric
\* column, with which the run goes on to the summary.
FilterAndEnrich ==
    /\ pc = "filtered"
    /\ LET rows == Filtered(df, selected_date, selected_team)
       IN  IF rows = <<>>
           THEN \E outcome \in {"ValueError", "empty column"} :
                /\ filtered' = <<>>
                /\ IF outcome = "ValueError"
                   THEN /\ err' = "ValueError"
                        /\ pc' = "done"
                        /\ out' = out
                   ELSE /\ err' = err
                        /\ pc' = "summary"
                        /\ out' = Append(out, [table |-> "details", rows |-> <<>>])
           ELSE /\ filtered' = [i \in DOMAIN rows |-> EnrichFiltered(rows[i])]
                /\ err' = err
                /\ pc' = "summary"
                /\ out' = Append(out, [table |-> "details", rows |-> filtered'])
    /\ UNCHANGED <<csv, df, selected_date, selected_team, all_df, weekly_raw, totals>>

\* The summary metrics.  An empty numeric "SpreadCovered" column has no .str
\* accessor: line 113 raises AttributeError before any metric is rendered.
SummaryMetrics ==
    /\ pc = "summary"
    /\ IF filtered = <<>>
       THEN /\ err' = "AttributeError"
            /\ pc' = "done"
            /\ out' = out
       ELSE /\ LET total == Len(filtered)
                   isCorrect(r) == r.CorrectSide
                   isOver(r) == r.OverHit
                   isUnder(r) == r.UnderHit
                   isCovered(r) == r.SpreadCovered \in {"Home Covered", "Away Covered"}
                   correct_ml == Len(SelectSeq(filtered, isCorrect))
               IN  out' = Append(out,
                        [table |-> "metrics",
                         rows |-> << <<"Games", total>>,
                                     <<"Correct ML", correct_ml,
                                       Percent(Frac(correct_ml, total))>>,
                                     <<"Spread Covered", Len(SelectSeq(filtered, isCovered))>>,
                                     <<"Over Hit", Len(SelectSeq(filtered, isOver))>>,
                                     <<"Under Hit", Len(SelectSeq(filtered, isUnder))>> >>])
            /\ err' = err
            /\ pc' = "aggregates"
    /\ UNCHANGED <<csv, df, selected_date, selected_team, filtered, all_df,
                   weekly_raw, totals>>

Aggregates ==
    /\ pc = "aggregates"
    /\ all_df' = [i \in DOMAIN df |-> EnrichAll(df[i])]
    /\ pc' = "weekly"
    /\ UNCHANGED <<csv, df, selected_date, selected_team, filtered,
                   weekly_raw, totals, out, err>>

WeeklySummary ==
    /\ pc = "weekly"
    /\ weekly_raw' = WeeklyRaw(all_df)
    /\ out' = Append(out, [table |-> "weekly", rows |-> WeeklyDisplay(weekly_raw')])
    /\ pc' = "totals"
    /\ UNCHANGED <<csv, df, selected_date, selected_team, filtered, all_df,
                   totals, err>>

Totals ==
    /\ pc = "totals"
    /\ totals' = OverallTotals(weekly_raw)
    /\ out' = Append(out,
            [table |-> "totals",
             rows |-> << [index |-> "Total",
                          Games |-> totals'.total_games_all,
                          MLAccuracy |-> Percent(totals'.correct_pct_all),
                          OverHit |-> <<totals'.total_overs, Percent(totals'.over_pct)>>,
                          UnderHit |-> <<totals'.total_unders, Percent(totals'.under_pct)>>] >>])
    /\ pc' = "outcomes"
    /\ UNCHANGED <<csv, df, selected_date, selected_team, filtered, all_df,
                   weekly_raw, err>>

OutcomeSummaries ==
    /\ pc = "outcomes"
    /\ out' = out \o
            << [table |-> "spread_summary",
                rows |-> ValueCounts([i \in DOMAIN all_df |-> all_df[i].SpreadCovered])],
               [table |-> "total_summary",
                rows |-> ValueCounts([i \in DOMAIN all_df |-> all_df[i].TotalResult])] >>
    /\ pc' = "done"
    /\ UNCHANGED <<csv, df, selected_date, selected_team, filtered, all_df,
                   weekly_raw, totals, err>>

Next ==
    \/ LoadData
    \/ SelectFilters
    \/ FilterAndEnrich
    \/ SummaryMetrics
    \/ Aggregates
    \/ WeeklySummary
    \/ Totals
    \/ OutcomeSummaries

Spec == Init /\ [][Next]_vars

SpecAgg == InitAgg /\ [][Next]_vars

SpecFilter == InitFilter /\ [][Next]_vars

----------------------------------------------------------------------------
(* Properties *)

\* the script has labelled the filtered rows and the whole table
Labelled == pc \in {"weekly", "totals", "outcomes", "done"} /\ err = ""

\* the weekly and overall summaries have been computed and rendered
Aggregated == pc \in {"outcomes", "done"} /\ err = ""

ExactlyOneFlag(r) == AsInt(r.OverHit) + AsInt(r.UnderHit) + AsInt(r.PushTotal) = 1

ValidRecord(r) == r.Favorite \in {"Home", "Away", "None"} /\ ExactlyOneFlag(r)

HomeLabel(r) ==
    IF 2 * (r.HomeScore - r.AwayScore) > r.OpeningPointSpread2
    THEN "Home Covered" ELSE "Home Missed"

AwayLabel(r) ==
    IF 2 * (r.AwayScore - r.HomeScore) > r.OpeningPointSpread2
    THEN "Away Covered" ELSE "Away Missed"

\* C1: every game whose favorite is Home is labelled Home Covered exactly
\* when homeScore - awayScore is strictly greater than the opening spread, and
\* Home Missed otherwise (a margin equal to the spread is Home Missed); in
\* the filtered table and in the all-games table alike.
C1_HomeFavoriteCoverage ==
    /\ \A i \in DOMAIN filtered :
        filtered[i].Favorite = "Home" => filtered[i].SpreadCovered = HomeLabel(filtered[i])
    /\ \A i \in DOMAIN all_df :
        all_df[i].Favorite = "Home" => all_df[i].SpreadCovered = HomeLabel(all_df[i])

\* a Home favorite whose margin equals the spread has been labelled Home Missed
C1_Witness ==
    /\ Labelled
    /\ \E i \in DOMAIN filtered : \E j \in DOMAIN all_df :
        /\ filtered[i].Favorite = "Home" /\ all_df[j].GameId = filtered[i].GameId
        /\ 2 * (filtered[i].HomeScore - filtered[i].AwayScore) = filtered[i].OpeningPointSpread2
        /\ filtered[i].SpreadCovered = "Home Missed"
        /\ all_df[j].SpreadCovered = "Home Missed"

\* C2: every game whose favorite is Away is labelled Away Covered exactly
\* when -(homeScore - awayScore) is strictly greater than the opening spread,
\* and Away Missed otherwise.
C2_AwayFavoriteCoverage ==
    /\ \A i \in DOMAIN filtered :
        filtered[i].Favorite = "Away" => filtered[i].SpreadCovered = AwayLabel(filtered[i])
    /\ \A i \in DOMAIN all_df :
        all_df[i].Favorite = "Away" => all_df[i].SpreadCovered = AwayLabel(all_df[i])

\* an Away favorite that won by more than the spread while the home margin
\* is below it has been labelled Away Covered
C2_Witness ==
    /\ Labelled
    /\ \E i \in DOMAIN filtered : \E j \in DOMAIN all_df :
        /\ filtered[i].Favorite = "Away" /\ all_df[j].GameId = filtered[i].GameId
        /\ 2 * (filtered[i].AwayScore - filtered[i].HomeScore) > filtered[i].OpeningPointSpread2
        /\ 2 * (filtered[i].HomeScore - filtered[i].AwayScore) < filtered[i].OpeningPointSpread2
        /\ filtered[i].SpreadCovered = "Away Covered"
        /\ all_df[j].SpreadCovered = "Away Covered"

\* C3: a game with no recorded favorite is labelled NotApplicable, never
\* Home Covered, Away Covered, Home Missed or Away Missed.
C3_NoFavoriteNotApplicable ==
    /\ \A i \in DOMAIN filtered :
        filtered[i].Favorite = "None" => filtered[i].SpreadCovered = "NotApplicable"
    /\ \A i \in DOMAIN all_df :
        all_df[i].Favorite = "None" => all_df[i].SpreadCovered = "NotApplicable"

\* the correct side count of the whole table
CorrectCount == Cardinality({i \in DOMAIN df : df[i].CorrectSide})

\* C4: the Total moneyline accuracy, the sum over the weeks of accuracy x
\* games divided by the sum of the weeks' games, equals the number of correct
\* records over the number of records; the weighted numerator equals the
\* number of correct records.
C4_WeightedRollup ==
    Aggregated =>
        /\ totals.correct_pct_all[1] * Len(df) = CorrectCount * totals.correct_pct_all[2]
        /\ WeightedSum(weekly_raw) = <<CorrectCount, 1>>

\* weeks of different sizes, one of them with a fractional accuracy, have
\* been rolled up
C4_Witness ==
    /\ Aggregated
    /\ \E i, j \in DOMAIN weekly_raw :
        /\ weekly_raw[i].Games # weekly_raw[j].Games
        /\ weekly_raw[i].ML_Accuracy[2] > 1

\* C5: labelling a record with an unrecognized favorite, or with none or
\* more than one of overHit, underHit, pushTotal set, fails with
\* InvalidRecordError and no label is produced for that record.
C5_InvalidRecordFails ==
    /\ \A i \in DOMAIN filtered : ValidRecord(filtered[i])
    /\ \A i \in DOMAIN all_df : ValidRecord(all_df[i])
    /\ (pc \in {"summary", "aggregates", "weekly", "totals", "outcomes", "done"}
            /\ \E i \in DOMAIN df : ~ValidRecord(df[i]))
        => err = "InvalidRecordError"

\* the filter of the run has been applied
FilterApplied == pc \notin {"load", "filters", "filtered"}

\* C6: a run whose filters select no game fails with EmptyInputError and
\* renders no summary value.
C6_EmptyInputFails ==
    (FilterApplied /\ Filtered(df, selected_date, selected_team) = <<>>)
        => /\ err = "EmptyInputError"
           /\ \A i \in DOMAIN out : out[i].table # "metrics"

\* C7: after the weekly aggregation the Games of the groups add up to the
\* number of records of the table, and no group has zero Games.
C7_GroupCountsPartition ==
    pc \in {"totals", "outcomes", "done"} /\ err = "" =>
        /\ SumSeq([i \in DOMAIN weekly_raw |-> weekly_raw[i].Games]) = Len(df)
        /\ \A i \in DOMAIN weekly_raw : weekly_raw[i].Games > 0
        /\ Aggregated => totals.total_games_all = Len(df)

\* a week holding two games of one date has been aggregated
C7_Witness ==
    /\ Aggregated
    /\ \E i, j \in DOMAIN all_df :
        i # j /\ all_df[i].GameDate = all_df[j].GameDate
    /\ Len(weekly_raw) > 1

\* a week key as a number that grows with the week's first day
KeyNum(k) == k[1] * 10000 + k[2] * 100 + k[3]

TablesNamed(name) == {i \in DOMAIN out : out[i].table = name}

\* C8: the weekly rows are rendered in strictly ascending order of their
\* week, one row per distinct week of the table, and the Total row is
\* rendered after them, exactly once.
C8_RowsAscendingTotalLast ==
    /\ Cardinality(TablesNamed("weekly")) <= 1
    /\ Cardinality(TablesNamed("totals")) <= 1
    /\ \A w \in TablesNamed("weekly") :
        /\ \A i, j \in DOMAIN out[w].rows :
            i < j => KeyNum(out[w].rows[i].index) < KeyNum(out[w].rows[j].index)
        /\ {out[w].rows[i].index : i \in DOMAIN out[w].rows}
                = {Week(df[i].GameDate) : i \in DOMAIN df}
    /\ \A t \in TablesNamed("totals") :
        /\ \E w \in TablesNamed("weekly") : w < t
        /\ Len(out[t].rows) = 1
        /\ out[t].rows[1].index = "Total"
    /\ Aggregated =>
        /\ Cardinality(TablesNamed("weekly")) = 1
        /\ Cardinality(TablesNamed("totals")) = 1

\* a table whose first game is of a later week than its second has been
\* summarised, Total row included
C8_Witness ==
    /\ Aggregated
    /\ Len(df) >= 2
    /\ df[1].GameDate > df[2].GameDate
    /\ Week(df[1].GameDate) # Week(df[2].GameDate)
    /\ TablesNamed("totals") # {}

\* C9: for a record with exactly one of overHit, underHit, pushTotal set the
\* over/under label is read from the flags alone: Over iff overHit, Under
\* iff underHit, Push iff pushTotal, whatever the total, the line and the
\* scores are.
C9_OverUnderFromFlags ==
    \A i \in DOMAIN filtered :
        ExactlyOneFlag(filtered[i]) =>
            /\ filtered[i].OU_Result = "Over" <=> filtered[i].OverHit
            /\ filtered[i].OU_Result = "Under" <=> filtered[i].UnderHit
            /\ filtered[i].OU_Result = "Push" <=> filtered[i].PushTotal

\* a game flagged Over whose final total is below the line has been
\* labelled Over
C9_Witness ==
    \E i \in DOMAIN filtered :
        /\ filtered[i].OverHit /\ ExactlyOneFlag(filtered[i])
        /\ 2 * filtered[i].TotalRuns < filtered[i].OpeningOverUnder2
        /\ filtered[i].OU_Result = "Over"

\* C10: in the all-games table an Over label is given only to a record with
\* overHit, an Under label only to a record with underHit, and the side of
\* the label is the record's favorite.
C10_TotalResultConsistent ==
    \A i \in DOMAIN all_df :
        /\ all_df[i].TotalResult \in {"Over Home", "Over Away"} => all_df[i].OverHit
        /\ all_df[i].TotalResult \in {"Under Home", "Under Away"} => all_df[i].UnderHit
        /\ all_df[i].TotalResult \in {"Over Home", "Under Home"}
            => all_df[i].Favorite = "Home"
        /\ all_df[i].TotalResult \in {"Over Away", "Under Away"}
            => all_df[i].Favorite = "Away"

====
